---- MODULE Spec2Model ----
(***************************************************************************)
(* Model of src/EMUAIV0.py: ChaosEngine (grid, frame, lock), ChaosCore     *)
(* (driver thread lifecycle) and the calls the Tk main thread makes into   *)
(* them (load_rom_dialog, reset_rom, update_frame, start_chaos,            *)
(* stop_chaos).                                                            *)
(*                                                                         *)
(* Floats are fixed-point: a grid value v stands for v / Scale, Scale      *)
(* stands for 1.0, and every float operation rounds down to one unit.      *)
(* The grid is GridN x GridN instead of 64 x 64; the frame is the top-left *)
(* FrameH x FrameW window of the 240 x 320 buffer, indexed with the code's *)
(* own y / 3.75 and x / 5.                                                 *)
(*                                                                         *)
(* Spec is the whole program and FairSpec the same under fair scheduling.  *)
(* SpecEngine is a ChaosEngine whose load_rom is called alone, SpecRender  *)
(* is render_chaos over a wide range of grid values and times, and         *)
(* SpecIndex is the index arithmetic of render_chaos at the real sizes.    *)
(***************************************************************************)
EXTENDS Integers, Sequences, FiniteSets, TLC

\* ---------------------------------------------------------------- bounds
GridN == 2          \* side of the grid (64 in the source)
FrameH == 1         \* rows of the frame window that are modelled
FrameW == 2         \* columns of the frame window that are modelled
MaxThreads == 2     \* Thread objects start_chaos may create in one run
MaxTicks == 2       \* evolve() calls in one run
RngMod == 8         \* number of states of each ambient random generator

\* ------------------------------------------------------------ dimensions
Scale == 255 * 20                  \* fixed-point units in 1.0
SeedLen == GridN * GridN           \* 4096 == 64 * 64 in the source
MemSize == SeedLen + 2             \* len(self.memory), larger than SeedLen
Cells == 0 .. (SeedLen - 1)        \* row-major cell index i * GridN + j
Pixels == 0 .. (FrameH * FrameW - 1)
Tids == 1 .. MaxThreads
NoThread == 0                      \* self.thread is None
Free == 0                          \* the lock is not held
MainTid == -1                      \* the Tk main thread as lock holder

\* The real sizes, for the index arithmetic of render_chaos taken alone.
FrameRows == 240                   \* self.frame = np.zeros((240, 320, 3))
FrameCols == 320
GridSide == 64                     \* self.state = np.random.rand(64, 64)
NoScan == [y |-> -1, x |-> -1, sy |-> -1, sx |-> -1]

ZeroGrid == [k \in Cells |-> 0]
ZeroFrame == [p \in Pixels |-> <<0, 0, 0>>]
ZeroMemory == [k \in 1 .. MemSize |-> 0]

\* Byte sources the file dialog can hand to load_rom: one shorter than the
\* seed and one longer than the retained store.
RomSamples ==
    { <<255, 128>>,
      [k \in 1 .. (MemSize + 1) |-> IF k % 2 = 1 THEN 51 ELSE 255] }

\* Byte strings handed to ChaosEngine.load_rom when the engine is used
\* alone: every length from empty to one more than the store holds, filled
\* with 255s, with a ramp of distinct bytes, or with 0, 1, 2, ...
RomByte(a, k) == IF a = 1 THEN 255 ELSE IF a = 2 THEN (37 * k) % 256 ELSE k - 1
RomInputs ==
    { [k \in 1 .. n |-> RomByte(a, k)] : n \in 0 .. (MemSize + 1), a \in 1 .. 3 }

\* time.time() samples as (sin t, cos 1.1 t, sin 1.2 t) in thousandths:
\* t = 0 and t = pi / 2.
TimeSamples ==
    { [s |-> 0, c11 |-> 1000, s12 |-> 0],
      [s |-> 1000, c11 |-> -156, s12 |-> 951] }
NoTime == [s |-> 0, c11 |-> 0, s12 |-> 0]

\* More time.time() samples, for render_chaos taken alone: t = 0, pi / 2,
\* 3 pi / 2, pi / 1.1, pi / 2.4, 3 pi / 2.4 and 1, where the three terms
\* reach 1 and -1.
TimeInputs ==
    { [s |-> 0, c11 |-> 1000, s12 |-> 0],
      [s |-> 1000, c11 |-> -156, s12 |-> 951],
      [s |-> -1000, c11 |-> 454, s12 |-> -588],
      [s |-> 282, c11 |-> -1000, s12 |-> -282],
      [s |-> 966, c11 |-> 131, s12 |-> 1000],
      [s |-> -707, c11 |-> -383, s12 |-> -1000],
      [s |-> 841, c11 |-> 454, s12 |-> 932] }

\* Grid values evolve can leave in a cell, for render_chaos taken alone:
\* sixteenths of 1.0 from 0 on, the least positive value and the greatest
\* value below 1.0.
ValInputs == { (i * Scale) \div 16 : i \in 0 .. 15 } \cup {1, Scale - 1}

\* ------------------------------------------------------- pure operators
RECURSIVE SumOver(_, _)
SumOver(S, g) ==
    IF S = {} THEN 0
    ELSE LET k == CHOOSE x \in S : TRUE IN g[k] + SumOver(S \ {k}, g)

Min(a, b) == IF a < b THEN a ELSE b
Max(a, b) == IF a > b THEN a ELSE b

\* rom_data[:n]
Take(s, n) == SubSeq(s, 1, Min(Len(s), n))

\* self.memory[:len(rom_data)] = rom_data
StoreRom(mem, rom) ==
    [k \in 1 .. MemSize |-> IF k <= Len(rom) THEN rom[k] ELSE mem[k]]

\* Mutant of SeedGrid: the bytes are divided by 256.
SeedGridDiv256(rom) ==
    [k \in Cells |-> IF k + 1 <= Len(rom) THEN (rom[k + 1] * Scale) \div 256 ELSE 0]

\* rom_data[:4096].ljust(4096, b'\x00'), as uint8, reshaped and / 255.0
SeedGrid(rom) ==
    [k \in Cells |-> IF k + 1 <= Len(rom) THEN (rom[k + 1] * Scale) \div 255 ELSE 0]

\* The ambient generators (random, np.random): a state and its successor.
RngNext(s) == (5 * s + 3) % RngMod
\* One draw in [0, 1) from generator state s.
RngDraw(s) == (s * Scale) \div RngMod

RECURSIVE RngAfter(_, _)
RngAfter(s, n) == IF n = 0 THEN s ELSE RngAfter(RngNext(s), n - 1)

\* np.random.rand(64, 64) from generator state s: one draw per cell.
RandGrid(s) == [k \in Cells |-> RngDraw(RngAfter(s, k))]

\* self.state[max(0, i-1):i+2, max(0, j-1):j+2].sum() - self.state[i, j]
Neighbors(g, k) ==
    LET i == k \div GridN
        j == k % GridN
        win == { r * GridN + c : r \in Max(0, i - 1) .. Min(GridN - 1, i + 1),
                                 c \in Max(0, j - 1) .. Min(GridN - 1, j + 1) }
    IN SumOver(win, g) - g[k]

\* Mutant of EvolveCell: the sum is stored without the % 1.0.
EvolveCellNoWrap(g, k, u) ==
    g[k] + (Neighbors(g, k) \div 10) + ((u * 5) \div 100)

\* (self.state[i, j] + neighbors * 0.1 + random.random() * 0.05) % 1.0
EvolveCell(g, k, u) ==
    (g[k] + (Neighbors(g, k) \div 10) + ((u * 5) \div 100)) % Scale

\* Mutant of Channel: the factor is 128 instead of 127.5.
ChannelBy128(val, trig) == ((val * 128) * (1000 + trig)) \div (Scale * 1000)

\* int(val * 127.5 * (1 + trig)), trig in thousandths; val * 127.5 is
\* rounded to one unit before the second product
Channel(val, trig) == (((val * 1275) \div 10) * (1000 + trig)) \div (Scale * 1000)

\* Mutant of SrcRow: the row ratio is 3 instead of 3.75.
SrcRowBy3(y) == y \div 3

\* sy = int(y / 3.75)
SrcRow(y) == (y * 100) \div 375
\* sx = int(x / 5)
SrcCol(x) == x \div 5

\* val = self.state[sy, sx], for pixel p of the frame window
SourceCell(p) ==
    LET y == p \div FrameW
        x == p % FrameW
    IN SrcRow(y) * GridN + SrcCol(x)

RenderPixel(g, p, t) ==
    LET val == g[SourceCell(p)]
    IN <<Channel(val, t.s), Channel(val, t.c11), Channel(val, t.s12)>>

\* ------------------------------------------------------------------ state
VARIABLES
    state,        \* engine.state: the grid, Cells -> 0 .. Scale
    frame,        \* engine.frame: Pixels -> <<r, g, b>>
    memory,       \* engine.memory: the retained byte store
    running,      \* engine.running
    lock,         \* engine.lock: Free, MainTid or the holding driver
    thread,       \* core.thread: NoThread or the last Thread created
    rngNp,        \* state of np.random
    rngPy,        \* state of random
    pc,           \* per Thread object: its position in run_chaos / evolve
    new_state,    \* per driver: evolve's local new_state
    idx,          \* per driver: the cell (i, j) loop of evolve, row-major
    now,          \* per driver: render_chaos's current_time
    pix,          \* per driver: the pixel (y, x) loop of render_chaos
    scan,         \* render_chaos taken alone at the real frame size: its
                  \* loop variables y, x and its locals sy, sx
    ticks,        \* evolve() calls begun so far
    pcMain,       \* position of the main thread
    mainOp,       \* the call the main thread is executing
    core_rom_data, \* ChaosCore.load_rom's local rom_data: the bytes read
    rom_data,     \* ChaosEngine.load_rom's parameter rom_data
    exc,          \* an exception is propagating in the main thread
    img,          \* update_frame's local img; <<>> outside update_frame
    lastRet,      \* history: "start", "load_ok", "load_fail", "reset" or
                  \* "seed" once that call has returned, until the next
                  \* call; else "none"
    ioFailed,     \* history: this load's open()/read() raised
    drained,      \* history: stop_chaos returned and no start since
    frameDone,    \* history: the frame as the last completed render/reset left it
    pendingSeed,  \* history: the grid of the last seed, until a tick begins on
                  \* it or a reset replaces it
    seedDriver,   \* history: the driver the last load started, until its
                  \* first tick begins
    stateOrigin,  \* history: which operation assigned engine.state last
    late          \* history, per driver: -1, or the number of ticks it has
                  \* begun since the flag was cleared under it

vars ==
    <<state, frame, memory, running, lock, thread, rngNp, rngPy, pc, new_state,
      idx, now, pix, scan, ticks, pcMain, mainOp, rom_data, core_rom_data, exc,
      img, lastRet, ioFailed, drained, frameDone, pendingSeed, seedDriver,
      stateOrigin, late>>

engineVars == <<state, frame, memory, running, lock, rngNp, rngPy>>
driverVars == <<pc, new_state, idx, now, pix, scan, ticks>>
mainVars == <<pcMain, mainOp, rom_data, core_rom_data, exc, img, thread>>
histVars ==
    <<lastRet, ioFailed, drained, frameDone, pendingSeed,
      seedDriver, stateOrigin, late>>

NoGrid == << >>
RngSeeds == {0, 5}

\* Thread.is_alive(): started and run() not finished.
Alive(t) == t \in Tids /\ pc[t] \notin {"unborn", "done"}
AliveSet == {t \in Tids : Alive(t)}

\* History kept when the main thread clears engine.running: every live
\* driver starts counting the ticks it begins from now on.
FlagCleared == [t \in Tids |-> IF Alive(t) /\ late[t] < 0 THEN 0 ELSE late[t]]

\* ChaosEngine.__init__ and ChaosCore.__init__, then the GUI is idle.
Init ==
    /\ \E s \in RngSeeds :
          /\ state = RandGrid(s)
          /\ rngNp = RngAfter(s, SeedLen)
          /\ rngPy = s
    /\ frame = ZeroFrame
    /\ memory = ZeroMemory
    /\ running = FALSE
    /\ lock = Free
    /\ thread = NoThread
    /\ pc = [t \in Tids |-> "unborn"]
    /\ new_state = [t \in Tids |-> ZeroGrid]
    /\ idx = [t \in Tids |-> 0]
    /\ now = [t \in Tids |-> NoTime]
    /\ pix = [t \in Tids |-> 0]
    /\ scan = NoScan
    /\ ticks = 0
    /\ pcMain = "idle"
    /\ mainOp = "none"
    /\ core_rom_data = << >>
    /\ rom_data = << >>
    /\ exc = FALSE
    /\ img = << >>
    /\ lastRet = "none"
    /\ ioFailed = FALSE
    /\ drained = FALSE
    /\ frameDone = ZeroFrame
    /\ pendingSeed = NoGrid
    /\ seedDriver = NoThread
    /\ stateOrigin = "init"
    /\ late = [t \in Tids |-> -1]

\* ------------------------------------------------- the driver: run_chaos
\* Mutant of RunCheck: the loop goes on after the flag was cleared.
RunCheckIgnoresFlag(t) ==
    /\ pc[t] = "run_check"
    /\ \/ /\ ticks < MaxTicks
          /\ pc' = [pc EXCEPT ![t] = "ev_lock"]
          /\ ticks' = ticks + 1
          /\ late' = late
       \/ /\ ~running
          /\ ticks >= MaxTicks
          /\ pc' = [pc EXCEPT ![t] = "done"]
          /\ ticks' = ticks
          /\ late' = [late EXCEPT ![t] = -1]
    /\ UNCHANGED <<engineVars, new_state, idx, now, pix, scan, mainVars,
                   lastRet, ioFailed, drained, frameDone, pendingSeed,
                   seedDriver, stateOrigin>>

\* while self.engine.running: (the loop test)
RunCheck(t) ==
    /\ pc[t] = "run_check"
    /\ \/ /\ running
          /\ ticks < MaxTicks
          /\ pc' = [pc EXCEPT ![t] = "ev_lock"]
          /\ ticks' = ticks + 1
          /\ late' = late
       \/ /\ ~running
          /\ pc' = [pc EXCEPT ![t] = "done"]
          /\ ticks' = ticks
          /\ late' = [late EXCEPT ![t] = -1]
    /\ UNCHANGED <<engineVars, new_state, idx, now, pix, scan, mainVars,
                   lastRet, ioFailed, drained, frameDone, pendingSeed,
                   seedDriver, stateOrigin>>

\* evolve: with self.lock (acquire)
EvLock(t) ==
    /\ pc[t] = "ev_lock"
    /\ lock = Free
    /\ lock' = t
    /\ pc' = [pc EXCEPT ![t] = "ev_copy"]
    /\ late' = [late EXCEPT ![t] = IF @ >= 0 THEN @ + 1 ELSE @]
    /\ UNCHANGED <<state, frame, memory, running, rngNp, rngPy, new_state, idx,
                   now, pix, scan, ticks, mainVars, lastRet, ioFailed, drained,
                   frameDone, pendingSeed, seedDriver, stateOrigin>>

\* evolve: new_state = self.state.copy()
EvCopy(t) ==
    /\ pc[t] = "ev_copy"
    /\ new_state' = [new_state EXCEPT ![t] = state]
    /\ idx' = [idx EXCEPT ![t] = 0]
    /\ pc' = [pc EXCEPT ![t] = "ev_cell"]
    /\ pendingSeed' = NoGrid
    /\ seedDriver' = IF t = seedDriver THEN NoThread ELSE seedDriver
    /\ UNCHANGED <<engineVars, now, pix, scan, ticks, mainVars, lastRet,
                   ioFailed, drained, frameDone, stateOrigin, late>>

\* evolve: one iteration of the (i, j) loop. self.state is read anew in each
\* iteration; the reads within one iteration are taken together as one step.
EvCell(t) ==
    /\ pc[t] = "ev_cell"
    /\ idx[t] < SeedLen
    /\ new_state' =
          [new_state EXCEPT ![t][idx[t]] = EvolveCell(state, idx[t], RngDraw(rngPy))]
    /\ rngPy' = RngNext(rngPy)
    /\ idx' = [idx EXCEPT ![t] = idx[t] + 1]
    /\ pc' = [pc EXCEPT ![t] = IF idx[t] + 1 = SeedLen THEN "ev_assign" ELSE "ev_cell"]
    /\ UNCHANGED <<state, frame, memory, running, lock, rngNp, now, pix, scan,
                   ticks, mainVars, histVars>>

\* evolve: self.state = new_state
EvAssign(t) ==
    /\ pc[t] = "ev_assign"
    /\ state' = new_state[t]
    /\ idx' = [idx EXCEPT ![t] = 0]
    /\ pc' = [pc EXCEPT ![t] = "rc_time"]
    /\ stateOrigin' = "step"
    /\ UNCHANGED <<frame, memory, running, lock, rngNp, rngPy, new_state, now,
                   pix, scan, ticks, mainVars, lastRet, ioFailed, drained,
                   frameDone, pendingSeed, seedDriver, late>>

\* render_chaos: current_time = time.time(), with the clock read from T
RcTimeFrom(t, T) ==
    /\ pc[t] = "rc_time"
    /\ \E tm \in T : now' = [now EXCEPT ![t] = tm]
    /\ pix' = [pix EXCEPT ![t] = 0]
    /\ pc' = [pc EXCEPT ![t] = "rc_pix"]
    /\ UNCHANGED <<engineVars, new_state, idx, scan, ticks, mainVars,
                   histVars>>

RcTime(t) == RcTimeFrom(t, TimeSamples)
RcTimeWide(t) == RcTimeFrom(t, TimeInputs)

\* render_chaos: one iteration of the (y, x) loop; self.state is read anew
RcPix(t) ==
    /\ pc[t] = "rc_pix"
    /\ pix[t] < FrameH * FrameW
    /\ frame' = [frame EXCEPT ![pix[t]] = RenderPixel(state, pix[t], now[t])]
    /\ LET last == pix[t] + 1 = FrameH * FrameW
       IN /\ pix' = [pix EXCEPT ![t] = IF last THEN 0 ELSE pix[t] + 1]
          /\ now' = [now EXCEPT ![t] = IF last THEN NoTime ELSE now[t]]
          /\ pc' = [pc EXCEPT ![t] = IF last THEN "ev_unlock" ELSE "rc_pix"]
          /\ frameDone' = IF last THEN frame' ELSE frameDone
    /\ UNCHANGED <<state, memory, running, lock, rngNp, rngPy, new_state, idx,
                   scan, ticks, mainVars, lastRet, ioFailed, drained,
                   pendingSeed, seedDriver, stateOrigin, late>>

\* evolve: leaving the with block (release); evolve returns and its local
\* new_state goes away
EvUnlock(t) ==
    /\ pc[t] = "ev_unlock"
    /\ lock' = Free
    /\ new_state' = [new_state EXCEPT ![t] = ZeroGrid]
    /\ pc' = [pc EXCEPT ![t] = "run_sleep"]
    /\ UNCHANGED <<state, frame, memory, running, rngNp, rngPy, idx, now, pix,
                   scan, ticks, mainVars, histVars>>

\* run_chaos: time.sleep(0.016)
RunSleep(t) ==
    /\ pc[t] = "run_sleep"
    /\ pc' = [pc EXCEPT ![t] = "run_check"]
    /\ UNCHANGED <<engineVars, new_state, idx, now, pix, scan, ticks, mainVars,
                   histVars>>

Driver(t) ==
    \/ RunCheck(t)
    \/ EvLock(t)
    \/ EvCopy(t)
    \/ EvCell(t)
    \/ EvAssign(t)
    \/ RcTime(t)
    \/ RcPix(t)
    \/ EvUnlock(t)
    \/ RunSleep(t)

\* ------------------------------------------------ the main thread: calls
\* The value a call leaves behind when it returns to the Tk main loop.
Return(op) ==
    /\ pcMain' = "idle"
    /\ mainOp' = "none"
    /\ lastRet' = op

\* ---- ChaosCore.start_chaos
CallStart ==
    /\ pcMain = "idle"
    /\ \E t \in Tids : pc[t] = "unborn"
    /\ pcMain' = "sc_check"
    /\ mainOp' = "start"
    /\ lastRet' = "none"
    /\ UNCHANGED <<engineVars, driverVars, rom_data, core_rom_data, exc, img,
                   thread, ioFailed, drained, frameDone, pendingSeed,
                   seedDriver, stateOrigin, late>>

\* if self.thread and self.thread.is_alive():
ScCheck ==
    /\ pcMain = "sc_check"
    /\ pcMain' = IF thread # NoThread /\ Alive(thread) THEN "sc_clear" ELSE "sc_set"
    /\ drained' = FALSE
    /\ UNCHANGED <<engineVars, driverVars, mainOp, rom_data, core_rom_data,
                   exc, img, thread, lastRet, ioFailed, frameDone, pendingSeed,
                   seedDriver, stateOrigin, late>>

\* self.engine.running = False
ScClear ==
    /\ pcMain = "sc_clear"
    /\ running' = FALSE
    /\ late' = FlagCleared
    /\ pcMain' = "sc_join"
    /\ UNCHANGED <<state, frame, memory, lock, rngNp, rngPy, driverVars,
                   mainOp, rom_data, core_rom_data, exc, img, thread, lastRet,
                   ioFailed, drained, frameDone, pendingSeed, seedDriver,
                   stateOrigin>>

\* Mutant of ScJoin: start_chaos goes on without waiting for the old thread.
ScJoinNoWait ==
    /\ pcMain = "sc_join"
    /\ pcMain' = "sc_set"
    /\ UNCHANGED <<engineVars, driverVars, mainOp, rom_data, core_rom_data,
                   exc, img, thread, histVars>>

\* self.thread.join(): returns once the thread has finished
ScJoin ==
    /\ pcMain = "sc_join"
    /\ ~Alive(thread)
    /\ pcMain' = "sc_set"
    /\ UNCHANGED <<engineVars, driverVars, mainOp, rom_data, core_rom_data,
                   exc, img, thread, histVars>>

\* Mutant of ScSet: the flag is not set again before the new thread starts.
ScSetSkip ==
    /\ pcMain = "sc_set"
    /\ pcMain' = "sc_spawn"
    /\ UNCHANGED <<engineVars, driverVars, mainOp, rom_data, core_rom_data,
                   exc, img, thread, histVars>>

\* self.engine.running = True
ScSet ==
    /\ pcMain = "sc_set"
    /\ running' = TRUE
    /\ pcMain' = "sc_spawn"
    /\ UNCHANGED <<state, frame, memory, lock, rngNp, rngPy, driverVars,
                   mainOp, rom_data, core_rom_data, exc, img, thread,
                   histVars>>

\* self.thread = threading.Thread(target=self.run_chaos, daemon=True)
\* self.thread.start()
ScSpawn ==
    /\ pcMain = "sc_spawn"
    /\ \E t \in Tids :
          /\ pc[t] = "unborn"
          /\ \A u \in Tids : pc[u] = "unborn" => t <= u
          /\ thread' = t
          /\ pc' = [pc EXCEPT ![t] = "run_check"]
          /\ seedDriver' = IF mainOp = "load" THEN t ELSE seedDriver
    /\ IF mainOp = "load"
          THEN /\ pcMain' = "dlg_loaded"
               /\ UNCHANGED <<mainOp, lastRet>>
          ELSE Return("start")
    /\ UNCHANGED <<engineVars, new_state, idx, now, pix, scan, ticks, rom_data,
                   core_rom_data, exc, img, ioFailed, drained, frameDone,
                   pendingSeed, stateOrigin, late>>

\* ---- ChaosCore.stop_chaos
\* self.engine.running = False
StClear ==
    /\ pcMain = "idle"
    /\ running' = FALSE
    /\ pcMain' = "st_check"
    /\ mainOp' = "stop"
    /\ lastRet' = "none"
    /\ UNCHANGED <<state, frame, memory, lock, rngNp, rngPy, driverVars,
                   rom_data, core_rom_data, exc, img, thread, ioFailed,
                   drained, frameDone, pendingSeed, seedDriver, stateOrigin>>
    /\ late' = FlagCleared

\* if self.thread and self.thread.is_alive():
StCheck ==
    /\ pcMain = "st_check"
    /\ IF thread # NoThread /\ Alive(thread)
          THEN /\ pcMain' = "st_join"
               /\ UNCHANGED <<mainOp, lastRet, drained>>
          ELSE /\ Return("none")
               /\ drained' = TRUE
    /\ UNCHANGED <<engineVars, driverVars, rom_data, core_rom_data, exc, img,
                   thread, ioFailed, frameDone, pendingSeed, seedDriver,
                   stateOrigin, late>>

\* Mutant of StJoin: stop_chaos returns without waiting for the thread.
StJoinNoWait ==
    /\ pcMain = "st_join"
    /\ Return("none")
    /\ drained' = TRUE
    /\ UNCHANGED <<engineVars, driverVars, rom_data, core_rom_data, exc, img,
                   thread, ioFailed, frameDone, pendingSeed, seedDriver,
                   stateOrigin, late>>

\* self.thread.join()
StJoin ==
    /\ pcMain = "st_join"
    /\ ~Alive(thread)
    /\ Return("none")
    /\ drained' = TRUE
    /\ UNCHANGED <<engineVars, driverVars, rom_data, core_rom_data, exc, img,
                   thread, ioFailed, frameDone, pendingSeed, seedDriver,
                   stateOrigin, late>>

\* ---- load_rom_dialog -> ChaosCore.load_rom -> ChaosEngine.load_rom
\* load_rom_dialog: a file was chosen; status "Loading ROM..."; core.load_rom
CallLoad ==
    /\ pcMain = "idle"
    /\ pcMain' = "lr_open"
    /\ mainOp' = "load"
    /\ lastRet' = "none"
    /\ UNCHANGED <<engineVars, driverVars, rom_data, core_rom_data, exc, img,
                   thread, ioFailed, drained, frameDone, pendingSeed,
                   seedDriver, stateOrigin, late>>

\* with open(filepath, 'rb') as f: rom_data = f.read()   (it succeeds)
LrOpenOk ==
    /\ pcMain = "lr_open"
    /\ \E t \in Tids : pc[t] = "unborn"
    /\ \E rom \in RomSamples :
          /\ core_rom_data' = rom
          /\ rom_data' = rom
    /\ pcMain' = "el_mem"
    /\ UNCHANGED <<engineVars, driverVars, mainOp, exc, img, thread, histVars>>

\* Mutant of LrOpenFail: the loop is told to stop before the file is read.
LrOpenFailStops ==
    /\ pcMain = "lr_open"
    /\ exc' = TRUE
    /\ ioFailed' = TRUE
    /\ running' = FALSE
    /\ pcMain' = "lr_except"
    /\ UNCHANGED <<state, frame, memory, lock, rngNp, rngPy, driverVars,
                   mainOp, rom_data, core_rom_data, img, thread, lastRet,
                   drained, frameDone, pendingSeed, seedDriver, stateOrigin,
                   late>>

\* open() or read() raises: control passes to the except clause
LrOpenFail ==
    /\ pcMain = "lr_open"
    /\ exc' = TRUE
    /\ ioFailed' = TRUE
    /\ pcMain' = "lr_except"
    /\ UNCHANGED <<engineVars, driverVars, mainOp, rom_data, core_rom_data,
                   img, thread, lastRet, drained, frameDone, pendingSeed,
                   seedDriver, stateOrigin, late>>

\* except Exception as e: print(...); load_rom returns None
LrExcept ==
    /\ pcMain = "lr_except"
    /\ exc' = FALSE
    /\ pcMain' = "dlg_loaded"
    /\ UNCHANGED <<engineVars, driverVars, mainOp, rom_data, core_rom_data,
                   img, thread, lastRet, ioFailed, drained, frameDone,
                   pendingSeed, seedDriver, stateOrigin, late>>

\* ---- ChaosEngine.load_rom called on an engine that is used alone
CallSeed ==
    /\ pcMain = "idle"
    /\ \E rom \in RomInputs :
          /\ core_rom_data' = rom
          /\ rom_data' = rom
    /\ pcMain' = "el_mem"
    /\ mainOp' = "seed"
    /\ lastRet' = "none"
    /\ UNCHANGED <<engineVars, driverVars, exc, img, thread, ioFailed, drained,
                   frameDone, pendingSeed, seedDriver, stateOrigin, late>>

\* ChaosEngine.load_rom: rom_data = rom_data[:len(self.memory)]
\*                       self.memory[:len(rom_data)] = rom_data
ElMem ==
    /\ pcMain = "el_mem"
    /\ rom_data' = Take(rom_data, MemSize)
    /\ memory' = StoreRom(memory, rom_data')
    /\ pcMain' = "el_state"
    /\ UNCHANGED <<state, frame, running, lock, rngNp, rngPy, driverVars,
                   mainOp, core_rom_data, exc, img, thread, histVars>>

\* Mutant of ElState: the seed also clears the frame.
ElStateClearsFrame ==
    /\ pcMain = "el_state"
    /\ state' = SeedGrid(rom_data)
    /\ stateOrigin' = "seed"
    /\ pendingSeed' = state'
    /\ seedDriver' = NoThread
    /\ frame' = ZeroFrame
    /\ pcMain' = "el_ret"
    /\ UNCHANGED <<memory, running, lock, rngNp, rngPy, driverVars, mainOp,
                   rom_data, core_rom_data, exc, img, thread, lastRet,
                   ioFailed, drained, frameDone, late>>

\* ChaosEngine.load_rom: self.state = np.frombuffer(...) / 255.0
ElState ==
    /\ pcMain = "el_state"
    /\ state' = SeedGrid(rom_data)
    /\ stateOrigin' = "seed"
    /\ pendingSeed' = state'
    /\ seedDriver' = NoThread
    /\ pcMain' = "el_ret"
    /\ UNCHANGED <<frame, memory, running, lock, rngNp, rngPy, driverVars,
                   mainOp, rom_data, core_rom_data, exc, img, thread, lastRet,
                   ioFailed, drained, frameDone, late>>

\* ChaosEngine.load_rom: print("... ROM loaded ...") and return: to
\* ChaosCore.load_rom, which goes on to self.start_chaos(), or to a caller
\* that used the engine alone
ElReturn ==
    /\ pcMain = "el_ret"
    /\ IF mainOp = "load"
          THEN /\ pcMain' = "sc_check"
               /\ UNCHANGED <<mainOp, lastRet, rom_data, core_rom_data>>
          ELSE /\ Return("seed")
               /\ rom_data' = << >>
               /\ core_rom_data' = << >>
    /\ UNCHANGED <<engineVars, driverVars, exc, img, thread, ioFailed, drained,
                   frameDone, pendingSeed, seedDriver, stateOrigin, late>>

\* load_rom_dialog after core.load_rom: status "Loaded: ...", or the except
\* clause's "Error: ..." when an exception arrived
DlgLoaded ==
    /\ pcMain = "dlg_loaded"
    /\ exc' = FALSE
    /\ rom_data' = << >>
    /\ core_rom_data' = << >>
    /\ Return(IF ioFailed THEN "load_fail" ELSE "load_ok")
    /\ ioFailed' = FALSE
    /\ UNCHANGED <<engineVars, driverVars, img, thread, drained, frameDone,
                   pendingSeed, seedDriver, stateOrigin, late>>

\* ---- reset_rom -> ChaosCore.reset_rom -> ChaosEngine.reset
\* reset_rom: status "Resetting..."; core.reset_rom(); engine.reset()
CallReset ==
    /\ pcMain = "idle"
    /\ pcMain' = "rs_lock"
    /\ mainOp' = "reset"
    /\ lastRet' = "none"
    /\ UNCHANGED <<engineVars, driverVars, rom_data, core_rom_data, exc, img,
                   thread, ioFailed, drained, frameDone, pendingSeed,
                   seedDriver, stateOrigin, late>>

\* with self.lock (acquire): waits until the lock is free
RsLock ==
    /\ pcMain = "rs_lock"
    /\ lock = Free
    /\ lock' = MainTid
    /\ pcMain' = "rs_state"
    /\ UNCHANGED <<mainOp, lastRet>>
    /\ UNCHANGED <<state, frame, memory, running, rngNp, rngPy, driverVars,
                   rom_data, core_rom_data, exc, img, thread, ioFailed,
                   drained, frameDone, pendingSeed, seedDriver, stateOrigin,
                   late>>

\* self.state = np.random.rand(64, 64)
RsState ==
    /\ pcMain = "rs_state"
    /\ state' = RandGrid(rngNp)
    /\ rngNp' = RngAfter(rngNp, SeedLen)
    /\ stateOrigin' = "reset"
    /\ pendingSeed' = NoGrid
    /\ seedDriver' = NoThread
    /\ pcMain' = "rs_fill"
    /\ UNCHANGED <<frame, memory, running, lock, rngPy, driverVars, mainOp,
                   rom_data, core_rom_data, exc, img, thread, lastRet,
                   ioFailed, drained, frameDone, late>>

\* Mutant of RsFill: reset leaves the frame as it was.
RsFillSkip ==
    /\ pcMain = "rs_fill"
    /\ pcMain' = "rs_unlock"
    /\ UNCHANGED <<engineVars, driverVars, mainOp, rom_data, core_rom_data,
                   exc, img, thread, histVars>>

\* self.frame.fill(0): one numpy call
RsFill ==
    /\ pcMain = "rs_fill"
    /\ frame' = ZeroFrame
    /\ frameDone' = ZeroFrame
    /\ pcMain' = "rs_unlock"
    /\ UNCHANGED <<state, memory, running, lock, rngNp, rngPy, driverVars,
                   mainOp, rom_data, core_rom_data, exc, img, thread, lastRet,
                   ioFailed, drained, pendingSeed, seedDriver, stateOrigin,
                   late>>

\* Mutant of RsUnlock: reset leaves its with block without releasing.
RsUnlockKeepsLock ==
    /\ pcMain = "rs_unlock"
    /\ pcMain' = "rs_print"
    /\ UNCHANGED <<engineVars, driverVars, mainOp, rom_data, core_rom_data,
                   exc, img, thread, histVars>>

\* leaving the with block (release)
RsUnlock ==
    /\ pcMain = "rs_unlock"
    /\ lock' = Free
    /\ pcMain' = "rs_print"
    /\ UNCHANGED <<state, frame, memory, running, rngNp, rngPy, driverVars,
                   mainOp, rom_data, core_rom_data, exc, img, thread,
                   histVars>>

\* print("... Chaos reset to primal state"), outside the with block; reset
\* returns and reset_rom sets the status "Reset complete"
RsReturn ==
    /\ pcMain = "rs_print"
    /\ Return("reset")
    /\ UNCHANGED <<engineVars, driverVars, rom_data, core_rom_data, exc, img,
                   thread, ioFailed, drained, frameDone, pendingSeed,
                   seedDriver, stateOrigin, late>>

\* ---- ParallelLauncherGUI.update_frame
\* the Tk timer calls update_frame
CallUpdate ==
    /\ pcMain = "idle"
    /\ pcMain' = "uf_lock"
    /\ mainOp' = "update_frame"
    /\ lastRet' = "none"
    /\ UNCHANGED <<engineVars, driverVars, rom_data, core_rom_data, exc, img,
                   thread, ioFailed, drained, frameDone, pendingSeed,
                   seedDriver, stateOrigin, late>>

\* Mutant of UfLock: the frame is copied without taking the lock.
UfLockNoAcquire ==
    /\ pcMain = "uf_lock"
    /\ pcMain' = "uf_copy"
    /\ UNCHANGED <<engineVars, driverVars, mainOp, rom_data, core_rom_data,
                   exc, img, thread, histVars>>

\* with self.core.engine.lock (acquire): waits until the lock is free
UfLock ==
    /\ pcMain = "uf_lock"
    /\ lock = Free
    /\ lock' = MainTid
    /\ pcMain' = "uf_copy"
    /\ UNCHANGED <<mainOp, lastRet>>
    /\ UNCHANGED <<state, frame, memory, running, rngNp, rngPy, driverVars,
                   rom_data, core_rom_data, exc, img, thread, ioFailed,
                   drained, frameDone, pendingSeed, seedDriver, stateOrigin,
                   late>>

\* img = Image.fromarray(self.core.engine.frame.copy(), 'RGB')
UfCopy ==
    /\ pcMain = "uf_copy"
    /\ img' = frame
    /\ pcMain' = "uf_unlock"
    /\ UNCHANGED <<engineVars, driverVars, mainOp, rom_data, core_rom_data,
                   exc, thread, histVars>>

\* leaving the with block (release); img goes to the label and update_frame
\* returns
UfUnlock ==
    /\ pcMain = "uf_unlock"
    /\ lock' = Free
    /\ img' = << >>
    /\ Return("none")
    /\ UNCHANGED <<state, frame, memory, running, rngNp, rngPy, driverVars,
                   rom_data, core_rom_data, exc, thread, ioFailed, drained,
                   frameDone, pendingSeed, seedDriver, stateOrigin, late>>

Main ==
    \/ CallStart \/ ScCheck \/ ScClear \/ ScJoin \/ ScSet \/ ScSpawn
    \/ StClear \/ StCheck \/ StJoin
    \/ CallLoad \/ LrOpenOk \/ LrOpenFail \/ LrExcept \/ ElMem \/ ElState
    \/ ElReturn
    \/ DlgLoaded
    \/ CallReset \/ RsLock \/ RsState \/ RsFill \/ RsUnlock \/ RsReturn
    \/ CallUpdate \/ UfLock \/ UfCopy \/ UfUnlock

Next == Main \/ \E t \in Tids : Driver(t)

Spec == Init /\ [][Next]_vars

\* The same program with its scheduling: a call the main thread has begun
\* goes on while it can take a step, a with-statement that waits for the
\* lock gets it when the lock is free again and again (the driver sleeps
\* 16 ms a tick with the lock free), and every driver thread goes on while
\* it can take a step. Nothing obliges the user to begin a call.
MainStep == Main /\ pcMain # "idle"

FairSpec ==
    /\ Spec
    /\ WF_vars(MainStep)
    /\ SF_vars(RsLock)
    /\ SF_vars(UfLock)
    /\ \A t \in Tids : WF_vars(Driver(t))

\* A ChaosEngine used alone: load_rom called again and again, no ChaosCore
\* and no driver thread.
NextEngine == CallSeed \/ ElMem \/ ElState \/ ElReturn

SpecEngine == Init /\ [][NextEngine]_vars

\* render_chaos taken alone. The first driver has just assigned the grid
\* of its first tick (any grid of ValInputs) and is about to render it,
\* while a load on the main thread is about to assign the grid of a file
\* that starts with a byte 255.
InitRender ==
    /\ \E v \in ValInputs :
          /\ state = [k \in Cells |-> v]
          /\ new_state = [t \in Tids |-> IF t = 1 THEN [k \in Cells |-> v]
                                                   ELSE ZeroGrid]
    /\ \E s \in RngSeeds :
          /\ rngNp = RngAfter(s, SeedLen)
          /\ rngPy = RngAfter(s, SeedLen)
    /\ frame = ZeroFrame
    /\ memory = StoreRom(ZeroMemory, <<255, 128>>)
    /\ running = TRUE
    /\ lock = 1
    /\ thread = 1
    /\ pc = [t \in Tids |-> IF t = 1 THEN "rc_time" ELSE "unborn"]
    /\ idx = [t \in Tids |-> 0]
    /\ now = [t \in Tids |-> NoTime]
    /\ pix = [t \in Tids |-> 0]
    /\ scan = NoScan
    /\ ticks = 1
    /\ pcMain = "el_state"
    /\ mainOp = "load"
    /\ core_rom_data = <<255, 128>>
    /\ rom_data = <<255, 128>>
    /\ exc = FALSE
    /\ img = << >>
    /\ lastRet = "none"
    /\ ioFailed = FALSE
    /\ drained = FALSE
    /\ frameDone = ZeroFrame
    /\ pendingSeed = NoGrid
    /\ seedDriver = NoThread
    /\ stateOrigin = "step"
    /\ late = [t \in Tids |-> -1]

NextRender == ElState \/ \E t \in Tids : (RcTimeWide(t) \/ RcPix(t))

SpecRender == InitRender /\ [][NextRender]_vars

\* render_chaos taken alone at the real frame size: any one iteration of
\*   for y in range(240): sy = int(y / 3.75)
\*       for x in range(320): sx = int(x / 5)
\* Nothing but the indices is modelled.
RcIndex ==
    /\ scan = NoScan
    /\ \E y \in 0 .. (FrameRows - 1) : \E x \in 0 .. (FrameCols - 1) :
          scan' = [y |-> y, x |-> x, sy |-> SrcRow(y), sx |-> SrcCol(x)]
    /\ UNCHANGED <<engineVars, pc, new_state, idx, now, pix, ticks, mainVars,
                   histVars>>

SpecIndex == Init /\ [][RcIndex]_vars

\* ================================================================ claims
InPass(t) == pc[t] \in {"ev_copy", "ev_cell", "ev_assign"}
InRender(t) == pc[t] \in {"rc_time", "rc_pix"}

\* C1: at most one driver thread is alive in every reachable state, so no two
\* evolve ticks are in progress at the same time.
C1_AtMostOneDriver ==
    /\ Cardinality(AliveSet) <= 1
    /\ Cardinality({t \in Tids : InPass(t) \/ InRender(t)}) <= 1

\* C1 witness: start_chaos has joined a first driver that ticked and a second
\* one is in a tick.
C1_Witness == pc[1] = "done" /\ ticks = 2 /\ pc[2] = "rc_pix"

\* C2 (as claimed): whoever is about to write the grid, or to read or write
\* the frame, holds the engine lock.
C2_AccessUnderLock ==
    /\ pcMain \in {"el_state", "rs_state", "rs_fill", "uf_copy"} => lock = MainTid
    /\ \A t \in Tids : pc[t] \in {"ev_assign", "rc_pix"} => lock = t

\* C3 (as claimed): the first tick of the driver a load started reads the grid
\* that load's seed produced, when no tick began and no reset ran in between.
C3_FirstTickReadsSeed ==
    \A t \in Tids :
        (t = seedDriver /\ pc[t] = "ev_copy" /\ pendingSeed # NoGrid)
            => state = pendingSeed

\* C4 (as claimed): during a pass of evolve the grid being read is still the
\* one the pass copied: the cells not yet computed agree with the copy.
C4_PassReadsOneGrid ==
    \A t \in Tids :
        pc[t] = "ev_cell" =>
            \A k \in Cells : k >= idx[t] => state[k] = new_state[t][k]

\* C5: from the return of stop_chaos until start_chaos is entered again, the
\* flag is cleared, no driver is alive and no tick holds the lock.
C5_StoppedAfterStop ==
    drained => (~running /\ AliveSet = {} /\ lock \notin Tids)

\* C5 witness: stop_chaos has returned after a driver ticked, and a reset is
\* under way on the stopped loop.
C5_Witness == drained /\ ticks > 0 /\ pc[1] = "done" /\ pcMain = "rs_fill"

\* C6: the copy update_frame takes is the frame as the last completed render
\* or reset left it (or the initial zero frame).
C6_SnapshotWhole == pcMain = "uf_unlock" => img = frameDone

\* C6 witness: a rendered frame has been copied while the driver waits for
\* the lock to begin its next tick.
C6_Witness ==
    /\ pcMain = "uf_unlock"
    /\ img # ZeroFrame
    /\ \E t \in Tids : pc[t] = "ev_lock"

\* C7 (as claimed): every grid cell is in [0, 1).
C7_RangeHalfOpen == \A k \in Cells : 0 <= state[k] /\ state[k] < Scale

\* C7 (amended): every grid cell is in [0, 1], and in [0, 1) unless the grid
\* was assigned by seed; the cells evolve has computed are in [0, 1).
C7_RangeClosed ==
    /\ \A k \in Cells :
          /\ 0 <= state[k] /\ state[k] <= Scale
          /\ stateOrigin # "seed" => state[k] < Scale
    /\ \A t \in Tids : \A k \in Cells :
          (pc[t] \in {"ev_cell", "ev_assign"} /\ k < idx[t])
              => (0 <= new_state[t][k] /\ new_state[t][k] < Scale)

\* C7 witness: a step has replaced a grid seeded with a byte 255 (a cell 1.0).
C7_Witness ==
    /\ stateOrigin = "step"
    /\ memory[1] = 255
    /\ \E k \in Cells : state[k] > 0

\* C8: no step of a load whose read failed writes the grid, the frame, the
\* byte store, the flag, core.thread or any driver.
C8_FailedLoadChangesNothing ==
    [][(mainOp = "load" /\ pcMain' # pcMain /\ (ioFailed \/ ioFailed'))
          => UNCHANGED <<state, frame, memory, running, lock, thread, pc>>]_vars

\* C8 witness: a load has failed on a Running loop that an earlier load seeded.
C8_Witness ==
    /\ pcMain = "idle"
    /\ lastRet = "load_fail"
    /\ running
    /\ Alive(thread)
    /\ memory # ZeroMemory

\* C9 (as claimed): when the read failed, core.load_rom ends for its caller
\* otherwise than a successful load does. load_rom has no return statement,
\* so only a propagating exception can tell the two apart.
C9_FailureReported == (pcMain = "dlg_loaded" /\ ioFailed) => exc

\* C10: Stopped until the first start; Running with exactly one live driver,
\* the one core.thread names, when start_chaos or a successful load returns.
C10_Lifecycle ==
    /\ (thread = NoThread /\ pcMain # "sc_spawn") => (~running /\ AliveSet = {})
    /\ (pcMain = "idle" /\ lastRet \in {"start", "load_ok"})
          => (running /\ AliveSet = {thread})

\* C10 witness: a load on a Running loop has returned with the second driver.
C10_Witness ==
    /\ pcMain = "idle"
    /\ lastRet = "load_ok"
    /\ thread = 2
    /\ pc[1] = "done"

\* C11 (as claimed): when reset has returned, every channel of the frame is
\* 0, whether the loop is Stopped or Running.
C11_ZeroAfterReset ==
    (pcMain = "idle" /\ lastRet = "reset") => frame = ZeroFrame

\* C11 (amended): every channel is 0 when reset leaves its with block, and
\* still is when reset has returned on a Stopped loop; on a Running loop a
\* tick may have rendered into the frame by then.
C11_ZeroAtRelease ==
    /\ pcMain = "rs_unlock" => frame = ZeroFrame
    /\ (pcMain = "rs_print" /\ AliveSet = {}) => frame = ZeroFrame
    /\ (pcMain = "idle" /\ lastRet = "reset" /\ AliveSet = {})
          => frame = ZeroFrame

\* C11 witness: reset has returned on a loop that was stopped after a tick
\* had rendered a frame that was not all zero.
C11_Witness ==
    /\ pcMain = "idle"
    /\ lastRet = "reset"
    /\ AliveSet = {}
    /\ ticks > 0
    /\ \E k \in Cells : state[k] > 0

\* C12 (as claimed): from the moment a tick's step has replaced the grid to
\* the end of that tick's render, the grid is the one that step produced, so
\* render reads exactly that grid.
C12_RenderReadsStepGrid ==
    \A t \in Tids : InRender(t) => state = new_state[t]

\* C13 (as claimed): after load_rom has stored its input, the byte store is
\* that input cut to the size of the store, and holds nothing else: no
\* byte of an earlier, longer input is left behind it.
C13_StoreIsLastInput ==
    pcMain \in {"el_state", "el_ret"} =>
        \A k \in 1 .. MemSize :
            memory[k] = IF k <= Len(core_rom_data) THEN core_rom_data[k] ELSE 0

\* C14: after the seed, cell k of the grid (row-major) is byte k of the
\* input over 255 for k below the length of the input and below the size of
\* the grid, and 0 from the end of the input on; so the empty input gives
\* the zero grid and bytes past the size of the grid change nothing.
C14_SeedMapping ==
    pcMain = "el_ret" =>
        \A k \in Cells :
            IF k < Len(core_rom_data)
               THEN state[k] * 255 = core_rom_data[k + 1] * Scale
               ELSE state[k] = 0

\* C14 witness: an input longer than the store, starting with byte 37, has
\* been seeded: cell 0 is 37 / 255.
C14_Witness ==
    /\ pcMain = "el_ret"
    /\ Len(core_rom_data) > MemSize
    /\ core_rom_data[1] = 37
    /\ state[0] * 255 = 37 * Scale
    /\ state[SeedLen - 1] > 0

\* C15: every channel value render_chaos stores is in 0 .. 255, for every
\* grid value in [0, 1] and every time.
C15_ChannelIsByte ==
    \A p \in Pixels : \A c \in 1 .. 3 : 0 <= frame[p][c] /\ frame[p][c] <= 255

\* C15 witness: a cell 1.0 has been rendered at a time where sin t is 1: the
\* red channel is 255; the blue channel, below 255, is not 0.
C15_Witness ==
    /\ pc[1] = "ev_unlock"
    /\ state[0] = Scale
    /\ frame[0][1] = 255
    /\ frame[0][3] > 0

\* C16: for every pixel (y, x) of the 240 x 320 frame, the grid indices
\* int(y / 3.75) and int(x / 5) are in 0 .. 63; rows 0, 119 and 239 read
\* grid rows 0, 31 and 63, and columns 0, 159 and 319 read grid columns 0,
\* 31 and 63.
C16_IndicesInRange ==
    scan # NoScan =>
        /\ 0 <= scan.sy /\ scan.sy <= GridSide - 1
        /\ 0 <= scan.sx /\ scan.sx <= GridSide - 1
        /\ scan.y = 0 => scan.sy = 0
        /\ scan.y = 119 => scan.sy = 31
        /\ scan.y = 239 => scan.sy = 63
        /\ scan.x = 0 => scan.sx = 0
        /\ scan.x = 159 => scan.sx = 31
        /\ scan.x = 319 => scan.sx = 63

\* C16 witness: the loop has come to the last pixel, which reads the last
\* cell of the grid.
C16_Witness ==
    /\ scan.y = FrameRows - 1
    /\ scan.x = FrameCols - 1
    /\ scan.sy = GridSide - 1
    /\ scan.sx = GridSide - 1

\* C17: a driver leaves run_chaos only at the loop test, so a tick that is
\* in progress when the flag is cleared runs through evolve and
\* render_chaos; and a driver begins at most one tick after the flag was
\* cleared under it.
C17_CooperativeStop ==
    [][\A t \in Tids :
          /\ (pc[t] # "done" /\ pc'[t] = "done") => pc[t] = "run_check"
          /\ late'[t] <= 1]_vars

\* C17 witness: stop_chaos waits in join while the driver renders in a tick
\* it began after the flag was cleared.
C17_Witness ==
    /\ pcMain = "st_join"
    /\ ~running
    /\ \E t \in Tids : late[t] = 1 /\ pc[t] = "rc_pix"

\* C18: no step of ChaosEngine.load_rom writes the frame, the flag, the
\* lock, core.thread or a driver: it writes the grid and the byte store
\* only.
C18_SeedLeavesFrameAndLoop ==
    [][(pcMain \in {"el_mem", "el_state", "el_ret"} /\ pcMain' # pcMain)
          => UNCHANGED <<frame, running, lock, thread, pc, rngNp, rngPy>>]_vars

\* C18 witness: load_rom has seeded the grid on a Running loop whose frame
\* had been rendered, and the frame is still not zero.
C18_Witness ==
    /\ pcMain = "el_ret"
    /\ running
    /\ Alive(thread)
    /\ memory # ZeroMemory
    /\ frameDone # ZeroFrame
    /\ frame = frameDone

\* C19: the main thread never waits, in join or for the lock, while it
\* holds the lock itself; and, when the main thread and the drivers are
\* scheduled fairly, every call of start_chaos, stop_chaos, load_rom, reset
\* and update_frame that has begun returns.
C19_CallsReturn ==
    /\ [](pcMain \in {"sc_join", "st_join", "rs_lock", "uf_lock"}
             => lock # MainTid)
    /\ (pcMain # "idle") ~> (pcMain = "idle")

\* C19 witness: reset waits for the lock while a driver holds it in a tick.
C19_Witness ==
    /\ pcMain = "rs_lock"
    /\ \E t \in Tids : lock = t /\ pc[t] = "ev_cell"

\* C20: whenever the main thread is not inside start_chaos, stop_chaos or
\* load_rom, engine.running is set exactly when a driver thread is alive.
C20_FlagAgreesWithDriver ==
    mainOp \notin {"start", "stop", "load"} => (running <=> AliveSet # {})

\* C20 witness: a reset is returning on a Running loop that has ticked,
\* after an earlier stop_chaos had drained the first driver.
C20_Witness ==
    /\ pcMain = "rs_print"
    /\ running
    /\ AliveSet = {2}
    /\ pc[1] = "done"
    /\ ticks > 0

====
